---- MODULE Spec2Model ----
(***************************************************************************)
(* Model of rez's Resolver (src/src/rez/resolver.py): the iterative-depth  *)
(* controller that drives one or more Solver runs and maps the final run   *)
(* to the Resolver's result.                                               *)
(*                                                                         *)
(* Resolver.solve() is synchronous; it is modelled as a sequence of steps  *)
(* (begin, one step per Solver run, the loop test, _set_result) so that    *)
(* the sequence of Solver runs of one call can be observed.                *)
(*                                                                         *)
(* rez.solver (Solver, SolverStatus, PackageVariantCache) is not part of   *)
(* the sources at hand; a Solver run is modelled from its contract as a    *)
(* nondeterministic outcome constrained by the repository the run sees.    *)
(*                                                                         *)
(* Python's None is modelled as 0.  Values produced by a Solver run        *)
(* (graph, timings, descriptions, resolved packages) are modelled as       *)
(* tokens derived from the run's serial number, so that values of          *)
(* different runs, and different values of one run, are distinguishable.   *)
(*                                                                         *)
(* The second part models bundle_context (src/src/rez/bundle_context.py):  *)
(* the steps of _ContextBundler.bundle() over a small file system, with    *)
(* copy_package, ResolvedContext.retargeted and the elf utilities taken    *)
(* at their interface.  Spec runs the Resolver, BundleSpec the bundler.    *)
(***************************************************************************)
EXTENDS Integers, Sequences, FiniteSets, TLC

\* ---------------------------------------------------------------- bounds
\* largest start_depth a Resolver is constructed with
MaxStartDepth == 2
\* largest max_depth a Resolver is constructed with
MaxMaxDepth == 3
\* largest number of candidate versions of any package in a repository
MaxVersions == 3
\* number of solve() calls made overall
MaxCalls == 2
\* number of Resolver objects constructed overall
MaxResolvers == 2

\* largest number of variants in a context's resolved_packages
MaxVariants == 2
\* largest number of files _find_files returns
MaxElfs == 1
\* largest number of rpath entries of an elf
MaxRpaths == 1

\* cap on the Solver runs of one solve() call; the doubling loop needs at
\* most MaxVersions + 1 runs, so the cap binds only if the loop misbehaves
MaxRuns == MaxVersions + 2

None == 0

\* ------------------------------------------------------------- variables
VARIABLES
    \* Resolver fields (resolver.py:65-76)
    max_depth, start_depth,
    status_, resolved_packages_, failure_description, graph_,
    solve_time, load_time,
    \* position inside Resolver.solve(): "idle" (not in a call), "run"
    \* (about to construct and run a Solver), "check" (at the loop test of
    \* the iterative mode), "set_result" (about to call _set_result)
    pc,
    \* locals of Resolver.solve()
    package_cache, depth, solver,
    \* the repository as seen by the current solve() call
    numVersions, solDepth,
    \* history: the Solver runs of the current/last solve() call, how each
    \* call on the current Resolver ended, the cache of every call so far
    runs, statusLog, cacheLog,
    \* serial numbers
    rid, ncaches, nruns,
    \* ---- bundle_context ----
    \* arguments of bundle_context(): force, skip_non_relocatable, quiet,
    \* verbose, and the context (its resolved_packages)
    args, context,
    \* the host: platform_.name, whether `readelf`/`patchelf` are found,
    \* whether dest_dir exists at the call
    host,
    \* the file system under dest_dir
    fs,
    \* the _ContextBundler object: force, skip_non_relocatable, quiet,
    \* verbose, logs, rex_lines, copied_variants
    bundler,
    \* position inside bundle_context()/bundle(): "none" (not called),
    \* "bundle", "init", "copy", "context", "patch", "elf", "finalize",
    \* "done", "error" (an exception left the call)
    bpc,
    \* locals: relocated_package_names and the loop index of
    \* _copy_variants; elfs, its loop index and ld_library_path of
    \* _patch_libs_linux
    relocated, vi, elfs, ei, ld_library_path,
    \* history: kinds of message printed, steps begun, copy_package
    \* calls, packages skipped, retargeted() calls, elfs scanned
    printed, steps, copyCalls, skipped, retargetCalls, elfLog

resolverVars == <<max_depth, start_depth, status_, resolved_packages_,
                  failure_description, graph_, solve_time, load_time,
                  pc, package_cache, depth, solver, numVersions, solDepth,
                  runs, statusLog, cacheLog, rid, ncaches, nruns>>

bundlerVars == <<args, context, host, fs, bundler, bpc, relocated, vi,
                 elfs, ei, ld_library_path, printed, steps, copyCalls,
                 skipped, retargetCalls, elfLog>>

vars == <<resolverVars, bundlerVars>>

resolverFields == <<status_, resolved_packages_, failure_description,
                    graph_, solve_time, load_time>>

\* ------------------------------------------------------- ResolverStatus
ResolverStatus == {"pending", "solved", "failed", "aborted"}

\* the statuses a finished Solver reports
SolverStatus == {"solved", "failed", "unsolved"}

\* no Solver object (the local `solver` is unbound)
NoSolver == [id |-> 0, status |-> "none", is_partial |-> FALSE,
             max_depth |-> 0, package_cache |-> 0,
             abort_reason |-> None, failure_description |-> None,
             resolved_packages |-> None, graph |-> None,
             solve_time |-> 0, load_time |-> 0]

\* ---------------------------------------------------- Resolver.__init__
\* the assertion of __init__: max_depth >= start_depth when both are given
DepthPolicyOk(md, sd) == (md # 0 /\ sd # 0) => md >= sd

InitFields ==
    /\ status_ = "pending"
    /\ resolved_packages_ = None
    /\ failure_description = None
    /\ graph_ = None
    /\ solve_time = 0
    /\ load_time = 0

ResolverInit ==
    /\ max_depth \in 0..MaxMaxDepth
    /\ start_depth \in 0..MaxStartDepth
    /\ DepthPolicyOk(max_depth, start_depth)
    /\ InitFields
    /\ pc = "idle"
    /\ package_cache = None
    /\ depth = 0
    /\ solver = NoSolver
    /\ numVersions = 0
    /\ solDepth = 0
    /\ runs = <<>>
    /\ statusLog = <<>>
    /\ cacheLog = <<>>
    /\ rid = 1
    /\ ncaches = 0
    /\ nruns = 0

\* a further Resolver is constructed (between solve() calls); it replaces
\* the Resolver under observation
Construct ==
    /\ pc = "idle"
    /\ rid < MaxResolvers
    /\ \E md \in 0..MaxMaxDepth, sd \in 0..MaxStartDepth :
          /\ DepthPolicyOk(md, sd)
          /\ max_depth' = md
          /\ start_depth' = sd
    /\ status_' = "pending"
    /\ resolved_packages_' = None
    /\ failure_description' = None
    /\ graph_' = None
    /\ solve_time' = 0
    /\ load_time' = 0
    /\ rid' = rid + 1
    /\ runs' = <<>>
    /\ statusLog' = <<>>
    /\ UNCHANGED <<pc, package_cache, depth, solver, numVersions, solDepth,
                   cacheLog, ncaches, nruns>>
    /\ UNCHANGED bundlerVars

\* ------------------------------------------------------ Resolver.solve
\* variant of NewCache: one cache object shared by all calls
NewCache_Shared(n) == 1

\* PackageVariantCache(...): a new cache object, identified by its serial
NewCache(n) == n + 1

\* the max_depth argument of the first Solver of a call (0: no limit)
FirstDepth(sd, md) ==
    IF sd # 0 THEN sd
    ELSE IF md # 0 THEN md
    ELSE 0

\* variant of Iterative: the loop is entered when either depth is given
Iterative_EitherDepth(sd, md) == sd # 0 \/ md # 0

\* whether the call takes the iterative branch
Iterative(sd, md) == sd # 0

SolveBegin ==
    /\ pc = "idle"
    /\ Len(cacheLog) < MaxCalls
    /\ package_cache' = NewCache(ncaches)
    /\ ncaches' = ncaches + 1
    /\ cacheLog' = Append(cacheLog, package_cache')
    /\ \E n \in 1..MaxVersions, k \in 0..MaxVersions :
          /\ k <= n
          /\ numVersions' = n
          /\ solDepth' = k
    /\ depth' = FirstDepth(start_depth, max_depth)
    /\ runs' = <<>>
    /\ solver' = NoSolver
    /\ pc' = "run"
    /\ UNCHANGED <<max_depth, start_depth, resolverFields, statusLog,
                   rid, nruns>>
    /\ UNCHANGED bundlerVars

\* --------------------------------------------------------------- Solver
\* the status of a finished Solver run: unsolved when the callback stopped
\* it, solved when a solution lies within the versions the depth limit d
\* lets the run see (d = 0: all of them), failed otherwise.  k is the
\* smallest depth at which a solution exists (0: there is none)
SolverOutcome(d, k, abort) ==
    IF abort THEN "unsolved"
    ELSE IF k # 0 /\ (d = 0 \/ d >= k) THEN "solved"
    ELSE "failed"

\* the values is_partial may take: it can be set only if the depth limit d
\* cut a list of n versions short, and it is set when the run failed
\* although a solution exists at a greater depth
PartialChoices(st, d, n, k) ==
    IF d = 0 \/ d >= n THEN {FALSE}
    ELSE IF st = "failed" /\ k # 0 THEN {TRUE}
    ELSE BOOLEAN

\* the Solver object after Solver(max_depth=d, package_cache=c, ...).solve(),
\* as read by Resolver.solve() and Resolver._set_result()
SolverRun(id, d, c, st, part) ==
    [id |-> id, status |-> st, is_partial |-> part,
     max_depth |-> d, package_cache |-> c,
     abort_reason |-> IF st = "unsolved" THEN 2 * id ELSE None,
     failure_description |-> IF st = "failed" THEN 2 * id + 1 ELSE None,
     resolved_packages |-> IF st = "solved" THEN id ELSE None,
     graph |-> id,
     solve_time |-> 2 * id,
     load_time |-> 2 * id + 1]

\* solver = Solver(max_depth=depth, **kwargs); solver.solve()
\* (the three branches of solve() differ only in the depth they pass)
RunSolver ==
    /\ pc = "run"
    /\ Len(runs) < MaxRuns
    /\ \E abort \in BOOLEAN :
          LET st == SolverOutcome(depth, solDepth, abort) IN
          \E part \in PartialChoices(st, depth, numVersions, solDepth) :
             solver' = SolverRun(nruns + 1, depth, package_cache, st, part)
    /\ runs' = Append(runs, solver')
    /\ nruns' = nruns + 1
    /\ pc' = IF Iterative(start_depth, max_depth) THEN "check" ELSE "set_result"
    /\ UNCHANGED <<max_depth, start_depth, resolverFields, package_cache,
                   depth, numVersions, solDepth, statusLog, cacheLog, rid,
                   ncaches>>
    /\ UNCHANGED bundlerVars

\* variant of LoopBreak without the is_partial test
LoopBreak_NoPartialTest(s, d, md) ==
    \/ s.status = "solved"
    \/ (md # 0 /\ d >= md)

\* variant of LoopBreak with the is_partial test inverted
LoopBreak_PartialInverted(s, d, md) ==
    \/ s.is_partial
    \/ s.status = "solved"
    \/ (md # 0 /\ d >= md)

\* the test that leaves the `while True` loop
LoopBreak(s, d, md) ==
    \/ ~ s.is_partial
    \/ s.status = "solved"
    \/ (md # 0 /\ d >= md)

Min(a, b) == IF a <= b THEN a ELSE b

\* variant of NextDepth that does not double the depth
NextDepth_NoDoubling(d, md) ==
    IF md # 0 THEN Min(d, md) ELSE d

\* the depth of the next iteration
NextDepth(d, md) ==
    IF md # 0 THEN Min(d * 2, md) ELSE d * 2

LoopCheck ==
    /\ pc = "check"
    /\ IF LoopBreak(solver, depth, max_depth)
       THEN /\ pc' = "set_result"
            /\ depth' = depth
       ELSE /\ pc' = "run"
            /\ depth' = NextDepth(depth, max_depth)
    /\ UNCHANGED <<max_depth, start_depth, resolverFields, package_cache,
                   solver, numVersions, solDepth, runs, statusLog, cacheLog,
                   rid, ncaches, nruns>>
    /\ UNCHANGED bundlerVars

\* ------------------------------------------------- Resolver._set_result
\* the Resolver's result fields as a record
Self == [status_ |-> status_,
         resolved_packages_ |-> resolved_packages_,
         failure_description |-> failure_description,
         graph_ |-> graph_,
         solve_time |-> solve_time,
         load_time |-> load_time]

\* variant of set_result: an unsolved (stopped) Solver is reported as failed
set_result_AbortAsFailed(self, s) ==
    LET st == s.status
        pkgs == IF st = "solved" THEN s.resolved_packages ELSE None
        r1 == IF st = "unsolved" \/ st = "failed"
              THEN [self EXCEPT !.status_ = "failed",
                                !.failure_description = s.failure_description]
              ELSE IF st = "solved"
              THEN [self EXCEPT !.status_ = "solved"]
              ELSE self
    IN  [r1 EXCEPT !.resolved_packages_ = pkgs,
                   !.graph_ = s.graph,
                   !.solve_time = s.solve_time,
                   !.load_time = s.load_time]

\* variant of set_result: resolved_packages_ is assigned only on success
set_result_StalePackages(self, s) ==
    LET st == s.status
        r1 == IF st = "unsolved"
              THEN [self EXCEPT !.status_ = "aborted",
                                !.failure_description = s.abort_reason]
              ELSE IF st = "failed"
              THEN [self EXCEPT !.status_ = "failed",
                                !.failure_description = s.failure_description]
              ELSE IF st = "solved"
              THEN [self EXCEPT !.status_ = "solved",
                                !.resolved_packages_ = s.resolved_packages]
              ELSE self
    IN  [r1 EXCEPT !.graph_ = s.graph,
                   !.solve_time = s.solve_time,
                   !.load_time = s.load_time]

\* variant of set_result: graph and timings are taken only from a solved run
set_result_GraphOnSuccessOnly(self, s) ==
    LET st == s.status
        pkgs == IF st = "solved" THEN s.resolved_packages ELSE None
        r1 == IF st = "unsolved"
              THEN [self EXCEPT !.status_ = "aborted",
                                !.failure_description = s.abort_reason]
              ELSE IF st = "failed"
              THEN [self EXCEPT !.status_ = "failed",
                                !.failure_description = s.failure_description]
              ELSE IF st = "solved"
              THEN [self EXCEPT !.status_ = "solved",
                                !.graph_ = s.graph,
                                !.solve_time = s.solve_time,
                                !.load_time = s.load_time]
              ELSE self
    IN  [r1 EXCEPT !.resolved_packages_ = pkgs]

set_result(self, s) ==
    LET st == s.status
        pkgs == IF st = "solved" THEN s.resolved_packages ELSE None
        r1 == IF st = "unsolved"
              THEN [self EXCEPT !.status_ = "aborted",
                                !.failure_description = s.abort_reason]
              ELSE IF st = "failed"
              THEN [self EXCEPT !.status_ = "failed",
                                !.failure_description = s.failure_description]
              ELSE IF st = "solved"
              THEN [self EXCEPT !.status_ = "solved"]
              ELSE self
    IN  [r1 EXCEPT !.resolved_packages_ = pkgs,
                   !.graph_ = s.graph,
                   !.solve_time = s.solve_time,
                   !.load_time = s.load_time]

\* self._set_result(solver), and solve() returns
SetResult ==
    /\ pc = "set_result"
    /\ LET r == set_result(Self, solver) IN
          /\ status_' = r.status_
          /\ resolved_packages_' = r.resolved_packages_
          /\ failure_description' = r.failure_description
          /\ graph_' = r.graph_
          /\ solve_time' = r.solve_time
          /\ load_time' = r.load_time
    /\ statusLog' = Append(statusLog, status_')
    /\ pc' = "idle"
    /\ package_cache' = None
    /\ depth' = 0
    /\ solver' = NoSolver
    /\ UNCHANGED <<max_depth, start_depth, numVersions, solDepth, runs,
                   cacheLog, rid, ncaches, nruns>>
    /\ UNCHANGED bundlerVars

\* ======================================================= bundle_context
\* the package names of the model's repository
Packages == {"foo", "bah"}

\* a variant of a context: the name of its package (variant.parent.name)
\* and whether that package is relocatable (variant.parent.is_relocatable)
Variants == [name : Packages, relocatable : BOOLEAN]

\* the resolved_packages a context may have: at most one variant per name
ResolvedLists ==
    {r \in UNION {[1..n -> Variants] : n \in 0..MaxVariants} :
        \A i, j \in 1..Len(r) : i # j => r[i].name # r[j].name}

\* the hosts bundling runs on: the platform, whether readelf and patchelf
\* are found, and whether dest_dir exists when bundle_context() is called
Hosts == [platform : {"linux", "osx", "windows"},
          readelf : BOOLEAN, patchelf : BOOLEAN, dest_exists : BOOLEAN]

\* the argument values of bundle_context(), here its defaults
DefaultArgs == [force |-> FALSE, skip_non_relocatable |-> FALSE,
                quiet |-> FALSE, verbose |-> FALSE]

\* a dict without entries, and d[k] = v
EmptyDict == [x \in {} |-> <<>>]
Put(d, k, v) == [x \in (DOMAIN d) \cup {k} |-> IF x = k THEN v ELSE d[x]]

\* the file system under dest_dir: nothing but, possibly, dest_dir itself
FreshFs(exists) ==
    [dest_dir |-> exists, packages |-> FALSE, bundle_yaml |-> "absent",
     bundle_logs |-> <<>>, settings_yaml |-> FALSE, context_rxt |-> FALSE,
     post_commands |-> FALSE, post_lines |-> <<>>, payload |-> {}]

\* variant of ContextBundler: force does not override skip_non_relocatable
ContextBundler_NoForceOverride(force, skip_non_relocatable, quiet, verbose) ==
    [force |-> force,
     skip_non_relocatable |-> skip_non_relocatable,
     quiet |-> quiet,
     verbose |-> IF quiet THEN FALSE ELSE verbose,
     logs |-> <<>>,
     rex_lines |-> <<>>,
     copied_variants |-> EmptyDict]

\* _ContextBundler.__init__
ContextBundler(force, skip_non_relocatable, quiet, verbose) ==
    [force |-> force,
     skip_non_relocatable |-> IF force THEN FALSE ELSE skip_non_relocatable,
     quiet |-> quiet,
     verbose |-> IF quiet THEN FALSE ELSE verbose,
     logs |-> <<>>,
     rex_lines |-> <<>>,
     copied_variants |-> EmptyDict]

\* the bundler before bundle_context() is called
BundlerIdle ==
    /\ args = DefaultArgs
    /\ context = [resolved_packages |-> <<>>]
    /\ host = [platform |-> "linux", readelf |-> FALSE, patchelf |-> FALSE,
               dest_exists |-> FALSE]
    /\ fs = FreshFs(FALSE)
    /\ bundler = ContextBundler(FALSE, FALSE, FALSE, FALSE)
    /\ bpc = "none"
    /\ relocated = <<>>
    /\ vi = 0
    /\ elfs = 0
    /\ ei = 0
    /\ ld_library_path = {}
    /\ printed = {}
    /\ steps = <<>>
    /\ copyCalls = <<>>
    /\ skipped = {}
    /\ retargetCalls = <<>>
    /\ elfLog = <<>>

Init == ResolverInit /\ BundlerIdle

\* self._info: the message goes to the log only
Info(b, what, subject) ==
    [b EXCEPT !.logs = Append(@, <<"INFO", what, subject>>)]

\* self._warning: the message goes to the log (and is printed)
Warning(b, what, subject) ==
    [b EXCEPT !.logs = Append(@, <<"WARNING", what, subject>>)]

\* what self._verbose_info prints
VerbosePrint(b) == IF b.verbose THEN {"verbose"} ELSE {}

\* bundle_context(context, dest_dir, force, skip_non_relocatable, quiet,
\* verbose): constructs the _ContextBundler; `quiet` is not among the
\* arguments it passes on, so the bundler gets the default quiet=False
BundleContext ==
    /\ bpc = "none"
    /\ \E a \in [force : BOOLEAN, skip_non_relocatable : BOOLEAN,
                 quiet : BOOLEAN, verbose : BOOLEAN] :
          /\ args' = a
          /\ bundler' = ContextBundler(a.force, a.skip_non_relocatable,
                                       FALSE, a.verbose)
    /\ \E r \in ResolvedLists : context' = [resolved_packages |-> r]
    /\ \E h \in Hosts :
          /\ host' = h
          /\ fs' = FreshFs(h.dest_exists)
    /\ bpc' = "bundle"
    /\ UNCHANGED <<relocated, vi, elfs, ei, ld_library_path, printed, steps,
                   copyCalls, skipped, retargetCalls, elfLog>>
    /\ UNCHANGED resolverVars

\* variant of DestDirExists: the check is missing
DestDirExists_NoCheck(f) == FALSE

\* os.path.exists(self.dest_dir)
DestDirExists(f) == f.dest_dir

\* variant of NextStep: the context is written before the variants are
\* copied
NextStep_ContextBeforeCopy(step) ==
    CASE step = "bundle" -> "init"
      [] step = "init" -> "context"
      [] step = "context" -> "copy"
      [] step = "copy" -> "patch"
      [] step = "patch" -> "finalize"
      [] step = "finalize" -> "done"

\* the order of the calls in bundle()
NextStep(step) ==
    CASE step = "bundle" -> "init"
      [] step = "init" -> "copy"
      [] step = "copy" -> "context"
      [] step = "context" -> "patch"
      [] step = "patch" -> "finalize"
      [] step = "finalize" -> "done"

\* bundle(), up to the first step: the dest_dir check and the first message
BundleStart ==
    /\ bpc = "bundle"
    /\ IF DestDirExists(fs)
       THEN /\ bpc' = "error"
            /\ printed' = printed
       ELSE /\ bpc' = NextStep("bundle")
            /\ printed' = IF bundler.quiet THEN printed
                          ELSE printed \cup {"info"}
    /\ UNCHANGED <<args, context, host, fs, bundler, relocated, vi, elfs, ei,
                   ld_library_path, steps, copyCalls, skipped, retargetCalls,
                   elfLog>>
    /\ UNCHANGED resolverVars

\* _init_bundle: dest_dir, the repository dir, the empty bundle.yaml and
\* the repository's settings.yaml
InitBundle ==
    /\ bpc = "init"
    /\ steps' = Append(steps, "init")
    /\ fs' = [fs EXCEPT !.dest_dir = TRUE, !.packages = TRUE,
                        !.bundle_yaml = "empty", !.bundle_logs = <<>>,
                        !.settings_yaml = TRUE]
    /\ bpc' = NextStep("init")
    /\ UNCHANGED <<args, context, host, bundler, relocated, vi, elfs, ei,
                   ld_library_path, printed, copyCalls, skipped,
                   retargetCalls, elfLog>>
    /\ UNCHANGED resolverVars

\* copy_package(package, force=...): whether it raises PackageCopyError,
\* which it does for a non-relocatable package unless forced
CopyPackageRaises(v, force) == ~ v.relocatable /\ ~ force

\* _copy_variants: relocated_package_names = []
CopyBegin ==
    /\ bpc = "copy"
    /\ vi = 0
    /\ steps' = Append(steps, "copy")
    /\ relocated' = <<>>
    /\ vi' = 1
    /\ UNCHANGED <<args, context, host, fs, bundler, bpc, elfs, ei,
                   ld_library_path, printed, copyCalls, skipped,
                   retargetCalls, elfLog>>
    /\ UNCHANGED resolverVars

\* _copy_variants: one iteration of the loop over resolved_packages
CopyVariant ==
    /\ bpc = "copy"
    /\ vi \in 1..Len(context.resolved_packages)
    /\ LET v == context.resolved_packages[vi] IN
       IF bundler.skip_non_relocatable /\ ~ v.relocatable
       THEN /\ bundler' = Warning(bundler, "skipped", v.name)
            /\ printed' = printed \cup {"warning"}
            /\ skipped' = skipped \cup {v.name}
            /\ vi' = vi + 1
            /\ UNCHANGED <<fs, bpc, relocated, copyCalls>>
       ELSE /\ copyCalls' = Append(copyCalls,
                                   [name |-> v.name, force |-> bundler.force])
            /\ IF CopyPackageRaises(v, bundler.force)
               THEN /\ bpc' = "error"
                    /\ UNCHANGED <<fs, bundler, relocated, vi>>
               ELSE /\ bundler' =
                          Info([bundler EXCEPT !.copied_variants =
                                   Put(@, v.name,
                                       [src |-> v.name, dest |-> v.name])],
                               "copied", v.name)
                    /\ fs' = [fs EXCEPT !.payload = @ \cup {v.name}]
                    /\ relocated' = Append(relocated, v.name)
                    /\ vi' = vi + 1
                    /\ bpc' = bpc
            /\ UNCHANGED <<printed, skipped>>
    /\ UNCHANGED <<args, context, host, elfs, ei, ld_library_path, steps,
                   retargetCalls, elfLog>>
    /\ UNCHANGED resolverVars

\* _copy_variants: the loop is over, relocated_package_names is returned
CopyDone ==
    /\ bpc = "copy"
    /\ vi = Len(context.resolved_packages) + 1
    /\ vi' = 0
    /\ bpc' = NextStep("copy")
    /\ UNCHANGED <<args, context, host, fs, bundler, relocated, elfs, ei,
                   ld_library_path, printed, steps, copyCalls, skipped,
                   retargetCalls, elfLog>>
    /\ UNCHANGED resolverVars

\* the package names of a list of variants, in order
Names(r) == [i \in 1..Len(r) |-> r[i].name]

\* variant of RetargetArgs: every package of the context is named
RetargetArgs_AllNames(ctx, names) ==
    [package_paths |-> <<"dest_dir/packages">>,
     package_names |-> Names(ctx.resolved_packages),
     skip_missing |-> TRUE]

\* the arguments of self.context.retargeted(...)
RetargetArgs(ctx, names) ==
    [package_paths |-> <<"dest_dir/packages">>,
     package_names |-> names,
     skip_missing |-> TRUE]

\* _write_retargeted_context
WriteRetargetedContext ==
    /\ bpc = "context"
    /\ steps' = Append(steps, "context")
    /\ retargetCalls' = Append(retargetCalls, RetargetArgs(context, relocated))
    /\ fs' = [fs EXCEPT !.context_rxt = TRUE]
    /\ printed' = printed \cup VerbosePrint(bundler)
    /\ bpc' = NextStep("context")
    /\ UNCHANGED <<args, context, host, bundler, relocated, vi, elfs, ei,
                   ld_library_path, copyCalls, skipped, elfLog>>
    /\ UNCHANGED resolverVars

\* ---------------------------------------------------- _patch_libs_linux
\* the rpath entries of the model's elfs: a relative one, one under the
\* source root of package foo (which may be copied, skipped or not part of
\* the context), and an absolute one outside every package
Rpaths == {"$ORIGIN/lib", "/src/foo/lib", "/usr/lib"}

\* the lists get_rpaths may return
RpathLists == UNION {[1..n -> Rpaths] : n \in 0..MaxRpaths}

\* os.path.isabs(rpath)
IsAbs(rp) == rp # "$ORIGIN/lib"

\* src_variant.root of the source variant of package n
SourceRoot(n) == IF n = "foo" THEN "/src/foo" ELSE "/src/bah"

\* is_subdirectory(rpath, root)
IsSubdirectory(rp, root) ==
    \/ rp = "/src/foo/lib" /\ root = "/src/foo"
    \/ rp = "/src/bah/lib" /\ root = "/src/bah"

\* os.path.join("{resolve.%s.root}" % pkg_name, relpath)
RootRef(n) ==
    IF n = "foo" THEN "{resolve.foo.root}/lib" ELSE "{resolve.bah.root}/lib"

\* remapped_rpath for an absolute rpath: the reference into the copied
\* variant whose source root holds it, "" (None) when there is none
RemappedRpath(rp, copied) ==
    LET holders == {n \in DOMAIN copied :
                       IsSubdirectory(rp, SourceRoot(copied[n].src))}
    IN  IF holders = {} THEN "" ELSE RootRef(CHOOSE n \in holders : TRUE)

\* whether the loop over rpaths appends rp to kept_rpaths
Kept(rp, copied) == ~ IsAbs(rp) \/ RemappedRpath(rp, copied) = ""

\* kept_rpaths after the loop over rpaths
KeptRpaths(r, copied) == SelectSeq(r, LAMBDA rp : Kept(rp, copied))

\* the remapped paths the loop over rpaths adds to ld_library_path
RemappedSet(r, copied) ==
    {RemappedRpath(r[i], copied) : i \in {j \in 1..Len(r) : ~ Kept(r[j], copied)}}

\* the "Remapped rpath" log entries of the loop over rpaths, in order
RECURSIVE LogRemapped(_, _, _)
LogRemapped(b, r, copied) ==
    IF r = <<>> THEN b
    ELSE LogRemapped(IF Kept(Head(r), copied) THEN b
                     ELSE Info(b, "remapped", Head(r)),
                     Tail(r), copied)

\* the orders in which a set may be iterated
Orderings(S) ==
    {q \in [1..Cardinality(S) -> S] :
        \A i, j \in 1..Cardinality(S) : i # j => q[i] # q[j]}

\* the post_commands.py line for an LD_LIBRARY_PATH entry
RexLine(ldpath) == <<"env.LD_LIBRARY_PATH.append", ldpath>>

\* _patch_libs, and _patch_libs_linux up to its loop over the elfs
PatchLibs ==
    /\ bpc = "patch"
    /\ steps' = Append(steps, "patch")
    /\ IF host.platform \in {"osx", "windows"}
       THEN /\ bpc' = NextStep("patch")
            /\ UNCHANGED <<bundler, printed, elfs, ei, ld_library_path>>
       ELSE \E n \in 0..MaxElfs :
               /\ (DOMAIN bundler.copied_variants = {}) => n = 0
               /\ IF n = 0
                  THEN /\ bundler' = Info(bundler, "no elfs", "")
                       /\ printed' = printed \cup
                             (IF DOMAIN bundler.copied_variants = {}
                              THEN {} ELSE VerbosePrint(bundler))
                       /\ bpc' = NextStep("patch")
                       /\ UNCHANGED <<elfs, ei, ld_library_path>>
                  ELSE IF ~ host.readelf
                  THEN /\ bundler' = Warning(bundler, "no readelf", "")
                       /\ printed' = printed \cup VerbosePrint(bundler)
                                             \cup {"warning"}
                       /\ bpc' = NextStep("patch")
                       /\ UNCHANGED <<elfs, ei, ld_library_path>>
                  ELSE /\ printed' = printed \cup VerbosePrint(bundler)
                       /\ elfs' = n
                       /\ ei' = 1
                       /\ ld_library_path' = {}
                       /\ bpc' = "elf"
                       /\ UNCHANGED bundler
    /\ UNCHANGED <<args, context, host, fs, relocated, vi, copyCalls,
                   skipped, retargetCalls, elfLog>>
    /\ UNCHANGED resolverVars

\* _patch_libs_linux: one iteration of the loop over the elfs.  get_rpaths
\* either raises (a file that is no elf is passed over silently, another
\* error is warned about) or returns the rpaths; patch_rpaths may raise
PatchElf ==
    /\ bpc = "elf"
    /\ ei \in 1..elfs
    /\ ei' = ei + 1
    /\ \/ /\ UNCHANGED <<bundler, printed, ld_library_path, elfLog>>
       \/ /\ bundler' = Warning(bundler, "get_rpaths", "")
          /\ printed' = printed \cup {"warning"}
          /\ UNCHANGED <<ld_library_path, elfLog>>
       \/ \E r \in RpathLists, patch_ok \in BOOLEAN :
             LET copied == bundler.copied_variants
                 kept == KeptRpaths(r, copied)
                 b1 == LogRemapped(bundler, r, copied)
             IN  /\ ld_library_path' =
                        ld_library_path \cup RemappedSet(r, copied)
                 /\ IF kept = r
                    THEN /\ patch_ok
                         /\ bundler' = IF r # <<>>
                                       THEN Info(b1, "unchanged", "")
                                       ELSE b1
                         /\ printed' = printed
                         /\ elfLog' = Append(elfLog,
                               [rpaths |-> r, kept |-> kept, final |-> r])
                    ELSE IF ~ host.patchelf
                    THEN /\ patch_ok
                         /\ bundler' = Warning(b1, "no patchelf", "")
                         /\ printed' = printed \cup {"warning"}
                         /\ elfLog' = Append(elfLog,
                               [rpaths |-> r, kept |-> kept, final |-> r])
                    ELSE IF ~ patch_ok
                    THEN /\ bundler' = Warning(b1, "patch_rpaths", "")
                         /\ printed' = printed \cup {"warning"}
                         /\ elfLog' = Append(elfLog,
                               [rpaths |-> r, kept |-> kept, final |-> r])
                    ELSE /\ bundler' = Info(b1, "patched", "")
                         /\ printed' = printed
                         /\ elfLog' = Append(elfLog,
                               [rpaths |-> r, kept |-> kept, final |-> kept])
    /\ UNCHANGED <<args, context, host, fs, bpc, relocated, vi, elfs, steps,
                   copyCalls, skipped, retargetCalls>>
    /\ UNCHANGED resolverVars

\* _patch_libs_linux: after the loop, a rex line per ld_library_path entry
PatchDone ==
    /\ bpc = "elf"
    /\ ei = elfs + 1
    /\ \E q \in Orderings(ld_library_path) :
          bundler' = [bundler EXCEPT !.rex_lines =
                         @ \o [i \in 1..Len(q) |-> RexLine(q[i])]]
    /\ ei' = 0
    /\ bpc' = NextStep("patch")
    /\ UNCHANGED <<args, context, host, fs, relocated, vi, elfs,
                   ld_library_path, printed, steps, copyCalls, skipped,
                   retargetCalls, elfLog>>
    /\ UNCHANGED resolverVars

\* _finalize_bundle: bundle.yaml with the logs, post_commands.py with the
\* rex lines if there are any; bundle() returns
FinalizeBundle ==
    /\ bpc = "finalize"
    /\ steps' = Append(steps, "finalize")
    /\ fs' = [fs EXCEPT !.bundle_yaml = "logs",
                        !.bundle_logs = bundler.logs,
                        !.post_commands = (bundler.rex_lines # <<>>),
                        !.post_lines = bundler.rex_lines]
    /\ bpc' = NextStep("finalize")
    /\ UNCHANGED <<args, context, host, bundler, relocated, vi, elfs, ei,
                   ld_library_path, printed, copyCalls, skipped,
                   retargetCalls, elfLog>>
    /\ UNCHANGED resolverVars

BundleNext ==
    \/ BundleContext
    \/ BundleStart
    \/ InitBundle
    \/ CopyBegin
    \/ CopyVariant
    \/ CopyDone
    \/ WriteRetargetedContext
    \/ PatchLibs
    \/ PatchElf
    \/ PatchDone
    \/ FinalizeBundle

\* the bundler is observed next to a Resolver that is left alone
BundleInit == Init /\ max_depth = 0 /\ start_depth = 0

BundleSpec == BundleInit /\ [][BundleNext]_vars

\* ---------------------------------------------------------------- system
Next ==
    \/ Construct
    \/ SolveBegin
    \/ RunSolver
    \/ LoopCheck
    \/ SetResult

Spec == Init /\ [][Next]_vars

\* solve() runs to completion: every Solver run terminates and the steps of
\* a call follow one another without stopping
FairSpec ==
    /\ Spec
    /\ WF_vars(RunSolver)
    /\ WF_vars(LoopCheck)
    /\ WF_vars(SetResult)

TypeOK ==
    /\ max_depth \in 0..MaxMaxDepth
    /\ start_depth \in 0..MaxStartDepth
    /\ status_ \in ResolverStatus
    /\ pc \in {"idle", "run", "check", "set_result"}
    /\ \A i \in 1..Len(runs) : runs[i].status \in SolverStatus

\* ================================================================ claims
\* a solve() call on the current Resolver has returned and none is running
Returned == pc = "idle" /\ statusLog # <<>>

\* the final Solver run of the current/last solve() call
FinalRun == runs[Len(runs)]

RECURSIVE Pow2(_)
Pow2(n) == IF n = 0 THEN 1 ELSE 2 * Pow2(n - 1)

\* ------------------------------------------------------------------- C1
\* C1 as stated: in iterative mode a run that is not solved and whose depth
\* is below the cap (or there is no cap) is always followed by a deeper
\* run, whatever its is_partial flag.
C1_RetryUnlessSolvedOrCapped ==
    [][(pc = "check" /\ solver.status # "solved"
            /\ (max_depth = 0 \/ depth < max_depth))
        => (pc' = "run" /\ depth' > depth)]_vars

\* C1 amended: at the loop test solve() stops when the run is solved, or is
\* not is_partial, or the depth has reached a nonzero max_depth; otherwise
\* (the run is failed or unsolved, is_partial, and below the cap) the next
\* step is a Solver run at double the depth, capped at a nonzero max_depth,
\* which is deeper than the run before.
C1_RetryOnlyWhenPartial ==
    [][pc = "check" =>
         IF \/ solver.status = "solved"
            \/ ~ solver.is_partial
            \/ (max_depth # 0 /\ depth >= max_depth)
         THEN pc' = "set_result" /\ runs' = runs
         ELSE /\ pc' = "run"
              /\ depth' = IF max_depth # 0 /\ 2 * depth > max_depth
                          THEN max_depth ELSE 2 * depth
              /\ depth' > depth]_vars

\* a failed, partial run below the cap has been followed by a deeper run,
\* and that call has then stopped on a failed run that was not partial
C1_Witness ==
    /\ pc = "set_result"
    /\ start_depth # 0
    /\ Len(runs) >= 2
    /\ runs[1].status = "failed" /\ runs[1].is_partial
    /\ runs[2].max_depth > runs[1].max_depth
    /\ solver.status = "failed" /\ ~ solver.is_partial
    /\ (max_depth = 0 \/ depth < max_depth)

\* ------------------------------------------------------------------- C2
\* C2: when solve() has returned, the Resolver status is determined by the
\* final Solver run's status alone: unsolved -> aborted with that run's
\* abort_reason, failed -> failed with that run's failure_description(),
\* solved -> solved with that run's resolved_packages; no other pairing.
C2_StatusFromFinalRun ==
    Returned =>
        /\ FinalRun.status \in SolverStatus
        /\ FinalRun.status = "unsolved" =>
              /\ status_ = "aborted"
              /\ failure_description = FinalRun.abort_reason
        /\ FinalRun.status = "failed" =>
              /\ status_ = "failed"
              /\ failure_description = FinalRun.failure_description
        /\ FinalRun.status = "solved" =>
              /\ status_ = "solved"
              /\ resolved_packages_ = FinalRun.resolved_packages

\* a call of several runs has returned aborted after an earlier failed run
C2_Witness ==
    /\ Returned
    /\ Len(runs) >= 2
    /\ runs[1].status = "failed"
    /\ FinalRun.status = "unsolved"
    /\ status_ = "aborted"

\* ------------------------------------------------------------------- C3
\* C3: in every reachable state resolved_packages_ is not None exactly when
\* the status is solved, also when a failed or aborted solve() follows a
\* solved one on the same Resolver.
C3_PackagesIffSolved ==
    (resolved_packages_ # None) <=> (status_ = "solved")

\* a failed or aborted call has followed a solved call on one Resolver
C3_Witness ==
    /\ Returned
    /\ Len(statusLog) >= 2
    /\ statusLog[Len(statusLog) - 1] = "solved"
    /\ status_ \in {"failed", "aborted"}
    /\ resolved_packages_ = None

\* ------------------------------------------------------------------- C4
\* C4 as stated: the status starts at pending and, once it is solved,
\* failed or aborted, no operation on the same Resolver (further solve()
\* calls included) changes it.
C4_TerminalStatusImmutable ==
    /\ status_ = "pending"
    /\ [][(status_ \in {"solved", "failed", "aborted"} /\ rid' = rid)
            => status_' = status_]_vars

\* ------------------------------------------------------------------- C5
\* C5 as stated: in every mode, a Solver run that the callback stopped
\* (status unsolved) is the last run of its solve() call, and the call
\* ends aborted, without resolved packages, with that run's abort_reason.
C5_AbortEndsSolve ==
    \A i \in 1..Len(runs) :
        runs[i].status = "unsolved" =>
            /\ i = Len(runs)
            /\ pc # "run"
            /\ Returned =>
                  /\ status_ = "aborted"
                  /\ resolved_packages_ = None
                  /\ failure_description = runs[i].abort_reason

\* ------------------------------------------------------------------- C6
\* the depth the claim gives to the i-th run (i = 0, 1, ...) of a call
C6_Depth(i) ==
    IF max_depth # 0 THEN Min(start_depth * Pow2(i), max_depth)
    ELSE start_depth * Pow2(i)

\* C6 as stated: in iterative mode the i-th run of a call has depth
\* min(start_depth * 2^i, max_depth) (no min when max_depth is 0), depths
\* strictly increase and never exceed a nonzero max_depth, and when a
\* solution first exists at depth k, the run that ends solved is the first
\* run of the call whose depth is >= k.
C6_DepthSequence ==
    (start_depth >= 1 /\ (max_depth # 0 => start_depth <= max_depth)) =>
        \A i \in 1..Len(runs) :
            /\ runs[i].max_depth = C6_Depth(i - 1)
            /\ i > 1 => runs[i].max_depth > runs[i - 1].max_depth
            /\ max_depth # 0 => runs[i].max_depth <= max_depth
            /\ runs[i].status = "solved" =>
                  /\ solDepth # 0
                  /\ runs[i].max_depth >= solDepth
                  /\ \A j \in 1..(i - 1) : runs[j].max_depth < solDepth

\* ------------------------------------------------------------------- C7
\* start_depth >= 1 and no max_depth
IterativeUncapped == start_depth >= 1 /\ max_depth = 0

\* C7: with start_depth >= 1 and max_depth = 0, given that every Solver run
\* terminates and that a run whose depth is at least the number of versions
\* is not is_partial, every solve() call returns after at most as many runs
\* as doublings are needed to reach the number of versions, and its final
\* run is solved or not is_partial.
C7_UncappedDeepeningConverges ==
    /\ []((IterativeUncapped /\ pc # "idle") => <>(pc = "idle"))
    /\ []((IterativeUncapped /\ pc \in {"set_result", "idle"} /\ runs # <<>>)
            => (FinalRun.status = "solved" \/ ~ FinalRun.is_partial))
    /\ [](IterativeUncapped =>
            \A i \in 1..Len(runs) :
                i < Len(runs) => runs[i].max_depth < numVersions)

\* an uncapped call went through three depths and returned with a failed
\* run that was not partial
C7_Witness ==
    /\ Returned
    /\ IterativeUncapped
    /\ Len(runs) >= 3
    /\ FinalRun.status = "failed"
    /\ ~ FinalRun.is_partial
    /\ FinalRun.max_depth >= numVersions
    /\ status_ = "failed"

\* ------------------------------------------------------------------- C8
\* C8: with start_depth = 0 a solve() call makes exactly one Solver run,
\* with depth limit max_depth (0: no limit), and goes on to _set_result
\* whatever the run reports; with start_depth nonzero the first run has
\* depth start_depth, whatever max_depth is.
C8_SingleRunWithoutStartDepth ==
    /\ start_depth = 0 =>
          /\ Len(runs) <= 1
          /\ pc # "check"
          /\ runs # <<>> =>
                /\ runs[1].max_depth = max_depth
                /\ pc \in {"set_result", "idle"}
          /\ Returned => Len(runs) = 1
    /\ start_depth # 0 =>
          /\ runs # <<>> => runs[1].max_depth = start_depth
          /\ (pc = "set_result" \/ Returned) => Len(runs) >= 1

\* a fixed-depth call returned failed after its single failed, partial run
C8_Witness ==
    /\ Returned
    /\ start_depth = 0
    /\ max_depth # 0
    /\ Len(runs) = 1
    /\ runs[1].status = "failed"
    /\ runs[1].is_partial
    /\ status_ = "failed"

\* ------------------------------------------------------------------- C9
\* C9: every Solver run of a solve() call is given the cache constructed at
\* the start of that call, and no two solve() calls (of one Resolver or of
\* different Resolvers) have the same cache.
C9_OneCachePerCall ==
    /\ \A i \in 1..Len(runs) :
          /\ cacheLog # <<>>
          /\ runs[i].package_cache = cacheLog[Len(cacheLog)]
          /\ runs[i].package_cache # None
    /\ \A i, j \in 1..Len(cacheLog) :
          i # j => cacheLog[i] # cacheLog[j]

\* the second call overall is at its second run or later
C9_Witness ==
    /\ Len(cacheLog) = 2
    /\ Len(runs) >= 2
    /\ runs[1].max_depth < runs[2].max_depth

\* ------------------------------------------------------------------ C10
\* C10: when solve() has returned, whatever the outcome, graph_ is not None
\* and graph_, solve_time and load_time are those of the final Solver run
\* of the call, the run that also gave the status and resolved packages.
C10_ResultFromFinalRun ==
    Returned =>
        /\ graph_ # None
        /\ graph_ = FinalRun.graph
        /\ solve_time = FinalRun.solve_time
        /\ load_time = FinalRun.load_time
        /\ resolved_packages_ = FinalRun.resolved_packages
        /\ (status_ = "solved") <=> (FinalRun.status = "solved")
        /\ (status_ = "failed") <=> (FinalRun.status = "failed")
        /\ (status_ = "aborted") <=> (FinalRun.status = "unsolved")
        /\ \A i \in 1..(Len(runs) - 1) :
              /\ graph_ # runs[i].graph
              /\ solve_time # runs[i].solve_time
              /\ load_time # runs[i].load_time

\* a call of several runs returned aborted; its graph is the last run's
C10_Witness ==
    /\ Returned
    /\ Len(runs) >= 2
    /\ status_ = "aborted"
    /\ graph_ = FinalRun.graph
    /\ graph_ # runs[1].graph

\* ------------------------------------------------------------------ C15
\* C15: a further Solver run is started only after a run that was
\* is_partial: every run of a call but the last is is_partial, a run is
\* pending only after a partial one, and a call whose run failed without
\* being partial returns failed with that run as its last.
C15_NoRunAfterCompleteSearch ==
    /\ \A i \in 1..Len(runs) : i < Len(runs) => runs[i].is_partial
    /\ (pc = "run" /\ runs # <<>>) => FinalRun.is_partial
    /\ (Returned /\ FinalRun.status = "failed" /\ ~ FinalRun.is_partial)
          => status_ = "failed"

\* an iterative call below the cap and below the number of versions has
\* returned failed after a single failed run that was not partial
C15_Witness ==
    /\ Returned
    /\ start_depth # 0
    /\ Len(runs) = 1
    /\ runs[1].status = "failed"
    /\ ~ runs[1].is_partial
    /\ runs[1].max_depth < numVersions
    /\ (max_depth = 0 \/ runs[1].max_depth < max_depth)
    /\ status_ = "failed"

\* ------------------------------------------------------------------ C16
\* C16 as stated: in every reachable state failure_description is not None
\* only when the status is failed or aborted; it is None whenever the
\* status is solved or pending.
C16_DescriptionOnlyWhenNotSolved ==
    (failure_description # None) => (status_ \in {"failed", "aborted"})

\* ------------------------------------------------------------------ C11
\* C11: if dest_dir exists when bundle() is called, the call ends with
\* ContextBundleError before any step: nothing is created under dest_dir,
\* no variant is copied, the context is not retargeted or saved, and
\* copied_variants, logs and rex_lines stay as constructed.
C11_ExistingDestDirRejected ==
    (bpc # "none" /\ host.dest_exists) =>
        /\ bpc \in {"bundle", "error"}
        /\ fs = FreshFs(TRUE)
        /\ steps = <<>>
        /\ copyCalls = <<>>
        /\ retargetCalls = <<>>
        /\ bundler.copied_variants = EmptyDict
        /\ bundler.logs = <<>>
        /\ bundler.rex_lines = <<>>

\* bundle() was called on an existing dest_dir, for a context with
\* variants, and has raised
C11_Witness ==
    /\ bpc = "error"
    /\ host.dest_exists
    /\ context.resolved_packages # <<>>

\* ------------------------------------------------------------------ C12
\* _copy_variants has returned
CopyFinished ==
    /\ \E i \in 1..Len(steps) : steps[i] = "copy"
    /\ bpc \notin {"copy", "error"}

\* the variant of package n in the context is not relocatable
NonRelocatable(n) ==
    \E i \in 1..Len(context.resolved_packages) :
        /\ context.resolved_packages[i].name = n
        /\ ~ context.resolved_packages[i].relocatable

\* C12: with force=True, whatever skip_non_relocatable is, no variant is
\* skipped, every copy is made with force, and once copying is over every
\* variant of the context has been copied and its name is among the
\* relocated names; a variant is skipped only if force is False,
\* skip_non_relocatable is True and its package is not relocatable.
C12_ForceOverridesSkip ==
    /\ args.force =>
          /\ skipped = {}
          /\ \A i \in 1..Len(copyCalls) : copyCalls[i].force
          /\ CopyFinished =>
                /\ relocated = Names(context.resolved_packages)
                /\ Len(copyCalls) = Len(context.resolved_packages)
                /\ \A i \in 1..Len(context.resolved_packages) :
                      /\ context.resolved_packages[i].name
                            \in DOMAIN bundler.copied_variants
                      /\ context.resolved_packages[i].name \in fs.payload
    /\ \A n \in skipped :
          /\ ~ args.force
          /\ args.skip_non_relocatable
          /\ NonRelocatable(n)

\* a forced bundling with skip_non_relocatable=True of a context that has a
\* non-relocatable package has finished
C12_Witness ==
    /\ bpc = "done"
    /\ args.force
    /\ args.skip_non_relocatable
    /\ \E n \in Packages : NonRelocatable(n) /\ n \in fs.payload

\* ------------------------------------------------------------------ C13
\* C13 as stated: with quiet=True nothing is printed during the whole
\* bundling (no info, verbose or warning message), and quiet=True with
\* verbose=True behaves as verbose=False.
C13_QuietSuppressesOutput ==
    (bpc # "none" /\ args.quiet) =>
        /\ printed = {}
        /\ ~ bundler.verbose

\* ------------------------------------------------------------------ C14
\* C14: the context is retargeted at most once, and once when bundling has
\* finished; the call names the single path <dest_dir>/packages, is in
\* skip-missing mode, and names, in resolved order, exactly the packages
\* that have an entry in copied_variants, none of which was skipped.
C14_RetargetToCopiedPackages ==
    /\ Len(retargetCalls) <= 1
    /\ bpc = "done" => Len(retargetCalls) = 1
    /\ \A c \in 1..Len(retargetCalls) :
          LET call == retargetCalls[c]
              names == call.package_names
          IN  /\ call.package_paths = <<"dest_dir/packages">>
              /\ call.skip_missing = TRUE
              /\ {names[i] : i \in 1..Len(names)}
                    = DOMAIN bundler.copied_variants
              /\ names = SelectSeq(Names(context.resolved_packages),
                            LAMBDA n : n \in DOMAIN bundler.copied_variants)
              /\ \A i \in 1..Len(names) : names[i] \notin skipped

\* a bundling that skipped one package and copied another has finished
C14_Witness ==
    /\ bpc = "done"
    /\ skipped # {}
    /\ Len(retargetCalls) = 1
    /\ Len(retargetCalls[1].package_names) >= 1

\* ------------------------------------------------------------------ C17
\* the entries of a list
Range(q) == {q[i] : i \in 1..Len(q)}

\* C17 as stated: on Linux, once patching is over, for every rpath of every
\* scanned elf an LD_LIBRARY_PATH line remapping it is written only if the
\* rpath was removed from that elf's rpath (also when patchelf is missing
\* or patching fails); an rpath is removed only if it is absolute and lies
\* under the source root of a copied variant; the others are kept in
\* their original order.
C17_RemappedOnlyIfRemoved ==
    (bpc \in {"finalize", "done"} /\ host.platform = "linux") =>
        \A e \in 1..Len(elfLog) :
            LET r == elfLog[e].rpaths
                final == elfLog[e].final
                copied == bundler.copied_variants
            IN  /\ \A i \in 1..Len(r) :
                      /\ (/\ IsAbs(r[i])
                          /\ RemappedRpath(r[i], copied) # ""
                          /\ RexLine(RemappedRpath(r[i], copied))
                                \in Range(bundler.rex_lines))
                            => r[i] \notin Range(final)
                      /\ r[i] \notin Range(final) =>
                            /\ IsAbs(r[i])
                            /\ \E n \in DOMAIN copied :
                                  IsSubdirectory(r[i], SourceRoot(copied[n].src))
                /\ final = SelectSeq(r, LAMBDA rp : rp \in Range(final))

\* ------------------------------------------------------------------ C18
\* the steps of bundle(), in order
BundleSteps == <<"init", "copy", "context", "patch", "finalize">>

\* C18: the steps of bundle() begin in the order init, copy, context,
\* patch, finalize; the empty bundle.yaml and the repository's
\* settings.yaml exist before any variant is copied and before context.rxt
\* is saved; context.rxt is saved only when every variant of the context
\* has been copied or skipped; bundle.yaml is rewritten only by the last
\* step, with the complete log.
C18_StepOrder ==
    /\ Len(steps) <= Len(BundleSteps)
    /\ steps = SubSeq(BundleSteps, 1, Len(steps))
    /\ bpc = "done" => steps = BundleSteps
    /\ (fs.payload # {} \/ fs.context_rxt \/ copyCalls # <<>>) =>
          /\ fs.bundle_yaml # "absent"
          /\ fs.settings_yaml
          /\ fs.dest_dir /\ fs.packages
    /\ (fs.payload # {} /\ ~ fs.context_rxt) => fs.bundle_yaml = "empty"
    /\ fs.context_rxt =>
          /\ \A i \in 1..Len(context.resolved_packages) :
                \/ context.resolved_packages[i].name \in fs.payload
                \/ context.resolved_packages[i].name \in skipped
          /\ bpc \notin {"copy", "error"}
    /\ fs.bundle_yaml = "logs" =>
          /\ bpc = "done"
          /\ fs.context_rxt
          /\ fs.bundle_logs = bundler.logs
    /\ bpc = "done" =>
          /\ fs.bundle_yaml = "logs"
          /\ fs.post_commands = (bundler.rex_lines # <<>>)

\* a bundling that copied a variant and patched an elf has finished, and
\* bundle.yaml holds the entries of both
C18_Witness ==
    /\ bpc = "done"
    /\ fs.payload # {}
    /\ elfLog # <<>>
    /\ Len(bundler.logs) >= 2
    /\ fs.bundle_logs = bundler.logs
    /\ \E i \in 1..Len(fs.bundle_logs) : fs.bundle_logs[i][2] = "copied"
    /\ \E i \in 1..Len(fs.bundle_logs) : fs.bundle_logs[i][2] = "patched"

====
